---- MODULE Spec2Model ----
(***************************************************************************)
(* Model of the URL-discovery crawler object (crawler.autoFetch,           *)
(* crawler.queueUrls, crawler.getXml) and of the script                    *)
(* generate-sitemap.js of dabaspark/crawl_agent.                           *)
(*                                                                         *)
(* A URL string is represented by the tuple of its '/'-separated segments, *)
(* so that url.split('/').length is Len(url) and two URL strings are equal *)
(* iff their tuples are equal.  Arrays are sequences.                      *)
(***************************************************************************)
EXTENDS FiniteSets, Integers, Sequences, TLC

\* ------------------------------------------------------------------ bounds
MaxLinks == 1      \* longest link list a fetched page returns
MaxBatch == 2      \* largest configured config.pageLoad.batchSize
MaxLevel == 1      \* largest configured config.crawlLevel
MaxCalls == 2      \* largest number of getXml calls started concurrently
MaxEvents == 3     \* largest number of 'add' and 'error' events the generator emits

\* -------------------------------------------------------------- the URLs
\* config.base = "https://example.com/"
Base    == <<"https:", "", "example.com", "">>
UrlA    == <<"https:", "", "example.com", "a">>
UrlB    == <<"https:", "", "example.com", "b">>
UrlDeep == <<"https:", "", "example.com", "deep", "path", "too", "far">>

Urls == {Base, UrlA, UrlB, UrlDeep}

\* links of "/" in the example crawl: /a, /b, /deep/path/too/far
ExampleLinks == <<UrlA, UrlB, UrlDeep>>

\* the link lists rulesService.checkRules(data) may return for a page
LinkLists == UNION {[1..n -> Urls] : n \in 0..MaxLinks} \cup {ExampleLinks}

\* -------------------------------------------------- underscore.js helpers
Range(s) == {s[i] : i \in 1..Len(s)}

Min(a, b) == IF a <= b THEN a ELSE b

\* _.uniq(array): the first occurrence of every value, in order
Uniq(s) ==
    LET first == {i \in 1..Len(s) : \A j \in 1..(i - 1) : s[j] # s[i]}
        at(k) == CHOOSE i \in first : Cardinality({j \in first : j < i}) = k - 1
    IN  [k \in 1..Cardinality(first) |-> s[at(k)]]

\* _.union(a, b): unique values of a followed by b, in order
Union(a, b) == Uniq(a \o b)

\* _.without(array, ...values): array with every occurrence of the values removed
Without(s, values) == SelectSeq(s, LAMBDA x : x \notin Range(values))

\* _.difference(array, other): the values of array not present in other
Difference(s, other) == SelectSeq(s, LAMBDA x : x \notin Range(other))

\* ------------------------------------------------------------------ state
VARIABLES
    config,              \* [crawlLevel, batchSize]: config.crawlLevel, config.pageLoad.batchSize
    counter,             \* crawler.counter
    allUrls,             \* crawler.allUrls
    processes,           \* crawler.processes
    processesCompleted,  \* crawler.processesCompleted
    dataFetched,         \* crawler.dataFetched
    pending,             \* pending[u]: webService.getWeb(u) promises not yet settled
    pc,                  \* position of the caller / of autoFetch
    seeded,              \* the caller has seeded the base URL
    xml,                 \* arguments of the filesService.createXml calls, in order
    getWebCalls,         \* getWebCalls[u]: number of webService.getWeb(u) invocations
    pages,               \* pages[u]: what the fetch of u resolved to
    settled,             \* the URLs whose fetch has settled, in the order they did
    xm,                  \* xm[u]: position of the call crawler.getXml(u, limit)
    limit,               \* the limit argument of the getXml calls
    urlCount,            \* generate-sitemap.js: urlCount
    stdout,              \* generate-sitemap.js: the lines printed, in order
    exitCode,            \* generate-sitemap.js: <<c>> once process.exit(c) was called
    script,              \* generate-sitemap.js: position of the script
    events               \* generate-sitemap.js: the generator events emitted, in order

\* the state of the getXml calls
xmVars == <<xm, limit>>

\* the state of the script generate-sitemap.js
scriptVars == <<urlCount, stdout, exitCode, script, events>>

vars == <<config, counter, allUrls, processes, processesCompleted, dataFetched,
          pending, pc, seeded, xml, getWebCalls, pages, settled, xmVars,
          scriptVars>>

\* crawler.baseUrlHashes = config.base.split('/').length
baseUrlHashes == Len(Base)

\* const batchSize = config.pageLoad.batchSize || 5
DefaultBatchSize == 5
BatchSize == IF config.batchSize = 0 THEN DefaultBatchSize ELSE config.batchSize

NoPage == [status |-> "none", links |-> <<>>]

Init ==
    /\ config \in [crawlLevel : 0..MaxLevel, batchSize : 0..MaxBatch]
    /\ counter = 0
    /\ allUrls = <<>>
    /\ processes = <<>>
    /\ processesCompleted = <<>>
    /\ dataFetched = 0
    /\ pending = [u \in Urls |-> 0]
    /\ pc = "constructed"
    /\ seeded = FALSE
    /\ xml = <<>>
    /\ getWebCalls = [u \in Urls |-> 0]
    /\ pages = [u \in Urls |-> NoPage]
    /\ settled = <<>>
    /\ xm = [u \in Urls |-> "idle"]
    /\ limit = 0
    /\ urlCount = 0
    /\ stdout = <<>>
    /\ exitCode = <<>>
    /\ script = "load"
    /\ events = <<>>

\* ------------------------------------------------------------ collaborators
\* rulesService.sortLinks(urls): the URLs in lexicographic order of their strings
UrlOrder == <<Base, UrlA, UrlB, UrlDeep>>
SortLinks(urls) == SelectSeq(UrlOrder, LAMBDA u : u \in Range(urls))

\* await filesService.createXml(rulesService.sortLinks(this.allUrls))
CreateXml == xml' = Append(xml, SortLinks(allUrls))

\* ---------------------------------------------------------------- queueUrls
\* const urlDepth = url.split('/').length - this.baseUrlHashes
urlDepth(url) == Len(url) - baseUrlHashes

\* mutant: the level test written with < instead of <=
InLevel_Strict(url) == urlDepth(url) < config.crawlLevel

\* return urlDepth <= config.crawlLevel
InLevel(url) == urlDepth(url) <= config.crawlLevel

\* mutant: the completed URLs are not removed from the candidates
removingCompleted_NoFilter(urls) == Uniq(urls)

\* _.uniq(_.without(urls, ...this.processesCompleted))
removingCompleted(urls) == Uniq(Without(urls, processesCompleted))

\* _.without(removingCompleted, ...this.processes)
removingQueued(urls) == Without(removingCompleted(urls), processes)

\* mutant: the level filter is left out
removingIngoreLevels_NoFilter(urls) == removingQueued(urls)

\* _.filter(removingQueued, url => urlDepth <= config.crawlLevel)
removingIngoreLevels(urls) == SelectSeq(removingQueued(urls), InLevel)

\* _.difference(urls, removingIngoreLevels)
urlsIgnored(urls) == Difference(urls, removingIngoreLevels(urls))

\* line 137: processesCompleted after this.processesCompleted.push(...urlsIgnored)
processesCompletedAfter(urls) == processesCompleted \o urlsIgnored(urls)

\* mutant: the candidates are pushed to the queue as they are left by the first filter
processesAfter_PushUnfiltered(urls) == processes \o removingCompleted(urls)

\* line 138: _.uniq([...this.processes, ...removingIngoreLevels])
processesAfter(urls) == Uniq(processes \o removingIngoreLevels(urls))

\* async queueUrls(urls): runs to completion without suspending
queueUrls(urls) ==
    /\ processesCompleted' = processesCompletedAfter(urls)
    /\ processes' = processesAfter(urls)

\* ---------------------------------------------------------------- autoFetch
\* this.processes.splice(0, batchSize): the removed elements
urlsToProcess == SubSeq(processes, 1, Min(BatchSize, Len(processes)))

\* number of occurrences of u in s
Count(s, u) == Cardinality({i \in 1..Len(s) : s[i] = u})

\* mutant: splice(0) empties the queue although only a batch is dispatched
DispatchBatch_DropQueue ==
    /\ processes' = <<>>
    /\ counter' = counter + Len(urlsToProcess)
    /\ processesCompleted' = processesCompleted \o urlsToProcess
    /\ pending' = [u \in Urls |-> pending[u] + Count(urlsToProcess, u)]
    /\ getWebCalls' = [u \in Urls |-> getWebCalls[u] + Count(urlsToProcess, u)]
    /\ pc' = "awaitBatch"
    /\ UNCHANGED <<config, allUrls, dataFetched, seeded, xml, pages, settled>>

\* mutant: counter is incremented once for the batch, not once for each URL
DispatchBatch_CountOnce ==
    /\ processes' = SubSeq(processes, Len(urlsToProcess) + 1, Len(processes))
    /\ counter' = counter + 1
    /\ processesCompleted' = processesCompleted \o urlsToProcess
    /\ pending' = [u \in Urls |-> pending[u] + Count(urlsToProcess, u)]
    /\ getWebCalls' = [u \in Urls |-> getWebCalls[u] + Count(urlsToProcess, u)]
    /\ pc' = "awaitBatch"
    /\ UNCHANGED <<config, allUrls, dataFetched, seeded, xml, pages, settled>>

\* lines 90-98: splice the batch off the queue and start the handler of each of
\* its URLs; every handler runs synchronously up to its await of getWeb
DispatchBatch ==
    /\ processes' = SubSeq(processes, Len(urlsToProcess) + 1, Len(processes))
    /\ counter' = counter + Len(urlsToProcess)
    /\ processesCompleted' = processesCompleted \o urlsToProcess
    /\ pending' = [u \in Urls |-> pending[u] + Count(urlsToProcess, u)]
    /\ getWebCalls' = [u \in Urls |-> getWebCalls[u] + Count(urlsToProcess, u)]
    /\ pc' = "awaitBatch"
    /\ UNCHANGED <<config, allUrls, dataFetched, seeded, xml, pages, settled>>

\* lines 81-85 and 119-122: write the sitemap and schedule process.exit
Finalize ==
    /\ CreateXml
    /\ pc' = "exit"
    /\ UNCHANGED <<config, counter, allUrls, processes, processesCompleted,
                   dataFetched, pending, seeded, getWebCalls, pages, settled>>

\* lines 80-90: the entry of autoFetch up to its first suspension
AutoFetchEntry ==
    IF Len(processes) = 0 THEN Finalize ELSE DispatchBatch

\* the condition under which line 117 writes the sitemap
AllProcessed == counter = dataFetched

\* mutant: the recursion ends without the final sitemap write of lines 117-122
AfterBatch_NoFinalize ==
    IF Len(processes) > 0 THEN AutoFetchEntry
    ELSE /\ pc' = "returned"
         /\ UNCHANGED <<config, counter, allUrls, processes, processesCompleted,
                        dataFetched, pending, seeded, xml, getWebCalls, pages,
                        settled>>

\* mutant: the counters are compared before the queue is looked at
AfterBatch_NoQueueCheck ==
    IF AllProcessed THEN Finalize ELSE AutoFetchEntry

\* mutant: every level of the recursion writes the sitemap
AfterBatch_XmlPerBatch ==
    IF Len(processes) > 0
    THEN /\ CreateXml
         /\ processes' = SubSeq(processes, Len(urlsToProcess) + 1, Len(processes))
         /\ counter' = counter + Len(urlsToProcess)
         /\ processesCompleted' = processesCompleted \o urlsToProcess
         /\ pending' = [u \in Urls |-> pending[u] + Count(urlsToProcess, u)]
         /\ getWebCalls' = [u \in Urls |-> getWebCalls[u] + Count(urlsToProcess, u)]
         /\ pc' = "awaitBatch"
         /\ UNCHANGED <<config, allUrls, dataFetched, seeded, pages, settled>>
    ELSE Finalize

\* lines 114-123: what autoFetch does once Promise.all(promises) has resolved
AfterBatch ==
    IF Len(processes) > 0 THEN AutoFetchEntry
    ELSE IF AllProcessed THEN Finalize
    ELSE /\ pc' = "returned"
         /\ UNCHANGED <<config, counter, allUrls, processes, processesCompleted,
                        dataFetched, pending, seeded, xml, getWebCalls, pages,
                        settled>>

\* mutant: autoFetch goes on without awaiting Promise.all(promises)
BatchSettled_NoWait == TRUE

\* Promise.all(promises) resolves when every handler of the batch has finished
BatchSettled == \A u \in Urls : pending[u] = 0

\* mutant: the new URLs are queued but not merged into allUrls
HandleData_NoUnion(xmUrl, newUrls) ==
    /\ dataFetched' = dataFetched + 1
    /\ queueUrls(newUrls)
    /\ UNCHANGED <<counter, allUrls>>

\* mutant: only the URLs within the crawl level are merged into allUrls
HandleData_InLevelUnion(xmUrl, newUrls) ==
    /\ allUrls' = Union(allUrls, SelectSeq(newUrls, InLevel))
    /\ dataFetched' = dataFetched + 1
    /\ queueUrls(newUrls)
    /\ UNCHANGED counter

\* lines 98-104: getWeb(xmUrl) resolved and checkRules returned newUrls
HandleData(xmUrl, newUrls) ==
    /\ allUrls' = Union(allUrls, newUrls)
    /\ dataFetched' = dataFetched + 1
    /\ queueUrls(newUrls)
    /\ UNCHANGED counter

\* mutant: the catch block does not count the failed URL
HandleError_NoCount(xmUrl) ==
    UNCHANGED <<counter, allUrls, processes, processesCompleted, dataFetched>>

\* mutant: the catch block puts the failed URL back into the queue
HandleError_Retry(xmUrl) ==
    /\ dataFetched' = dataFetched + 1
    /\ processes' = Append(processes, xmUrl)
    /\ UNCHANGED <<counter, allUrls, processesCompleted>>

\* lines 105-108: getWeb(xmUrl) rejected, or checkRules threw
HandleError(xmUrl) ==
    /\ dataFetched' = dataFetched + 1
    /\ UNCHANGED <<counter, allUrls, processes, processesCompleted>>

\* ------------------------------------------------------------------ actions
\* the caller seeds the crawl with the base URL
Seed ==
    /\ pc = "constructed"
    /\ ~seeded
    /\ processes' = <<Base>>
    /\ allUrls' = <<Base>>
    /\ seeded' = TRUE
    /\ UNCHANGED <<config, counter, processesCompleted, dataFetched, pending, pc,
                   xml, getWebCalls, pages, settled, xmVars, scriptVars>>

\* the caller invokes crawler.autoFetch()
AutoFetch ==
    /\ pc = "constructed"
    /\ AutoFetchEntry
    /\ UNCHANGED <<xmVars, scriptVars>>

\* the fetch of xmUrl resolves with a page whose links are newUrls
GetWebResolves ==
    \E xmUrl \in Urls, newUrls \in LinkLists :
        /\ pending[xmUrl] > 0
        /\ HandleData(xmUrl, newUrls)
        /\ pending' = [pending EXCEPT ![xmUrl] = @ - 1]
        /\ pages' = [pages EXCEPT ![xmUrl] = [status |-> "ok", links |-> newUrls]]
        /\ settled' = Append(settled, xmUrl)
        /\ UNCHANGED <<config, pc, seeded, xml, getWebCalls, xmVars, scriptVars>>

\* the fetch of xmUrl fails
GetWebRejects ==
    \E xmUrl \in Urls :
        /\ pending[xmUrl] > 0
        /\ HandleError(xmUrl)
        /\ pending' = [pending EXCEPT ![xmUrl] = @ - 1]
        /\ pages' = [pages EXCEPT ![xmUrl] = [status |-> "error", links |-> <<>>]]
        /\ settled' = Append(settled, xmUrl)
        /\ UNCHANGED <<config, pc, seeded, xml, getWebCalls, xmVars, scriptVars>>

\* autoFetch resumes after await Promise.all(promises)
BatchDone ==
    /\ pc = "awaitBatch"
    /\ BatchSettled
    /\ AfterBatch
    /\ UNCHANGED <<xmVars, scriptVars>>

Next == Seed \/ AutoFetch \/ GetWebResolves \/ GetWebRejects \/ BatchDone

Spec == Init /\ [][Next]_vars

\* the caller seeds the crawl with several URLs at once
SeedSeveral ==
    /\ pc = "constructed"
    /\ ~seeded
    /\ processes' = <<Base, UrlA>>
    /\ allUrls' = <<Base, UrlA>>
    /\ seeded' = TRUE
    /\ UNCHANGED <<config, counter, processesCompleted, dataFetched, pending, pc,
                   xml, getWebCalls, pages, settled, xmVars, scriptVars>>

SeededNext == SeedSeveral \/ Seed \/ AutoFetch \/ GetWebResolves \/ GetWebRejects \/ BatchDone

\* the crawl started from one seed or from several
SeededSpec == Init /\ [][SeededNext]_vars

\* the crawler constructed under any configuration, the invalid ones included:
\* a negative crawlLevel, a batchSize of 0 or below
ConfigInit ==
    /\ config \in [crawlLevel : -1..MaxLevel, batchSize : -1..MaxBatch]
    /\ counter = 0
    /\ allUrls = <<>>
    /\ processes = <<>>
    /\ processesCompleted = <<>>
    /\ dataFetched = 0
    /\ pending = [u \in Urls |-> 0]
    /\ pc = "constructed"
    /\ seeded = FALSE
    /\ xml = <<>>
    /\ getWebCalls = [u \in Urls |-> 0]
    /\ pages = [u \in Urls |-> NoPage]
    /\ settled = <<>>
    /\ xm = [u \in Urls |-> "idle"]
    /\ limit = 0
    /\ urlCount = 0
    /\ stdout = <<>>
    /\ exitCode = <<>>
    /\ script = "load"
    /\ events = <<>>

ConfigSpec == ConfigInit /\ [][Next]_vars

\* ------------------------------------------------------------------ getXml
\* lines 49-51 and 58-60: with counter = n, createXml is invoked if n >= limit and
\* the call then waits for it at the position awaiting; otherwise the call returns
CheckLimit(xmUrl, n, urls, awaiting) ==
    IF n >= limit
    THEN /\ xml' = Append(xml, SortLinks(urls))
         /\ xm' = [xm EXCEPT ![xmUrl] = awaiting]
    ELSE /\ xm' = [xm EXCEPT ![xmUrl] = "returned"]
         /\ UNCHANGED xml

\* mutant: the links of the page replace allUrls
getXmlData_Overwrite(xmUrl, newUrls) ==
    /\ counter' = counter + 1
    /\ allUrls' = newUrls
    /\ CheckLimit(xmUrl, counter + 1, newUrls, "createXml")

\* lines 44-51: getWeb(xmUrl) resolved and checkRules returned newUrls
getXmlData(xmUrl, newUrls) ==
    /\ counter' = counter + 1
    /\ allUrls' = Union(allUrls, newUrls)
    /\ CheckLimit(xmUrl, counter + 1, Union(allUrls, newUrls), "createXml")

\* lines 55-60: the catch block, entered with counter = n
getXmlCatch(xmUrl, n) ==
    /\ counter' = n + 1
    /\ CheckLimit(xmUrl, n + 1, allUrls, "createXmlCatch")
    /\ UNCHANGED allUrls

\* the getXml calls run until process.exit
XmRunning == pc \in {"getXml", "exiting"}

\* the URLs the caller passes to getXml, in the order of the calls
XmUrls == <<Base, UrlA, UrlB, UrlDeep>>

\* the caller starts getXml(xmUrl, limit) for each of the first limit URLs of its
\* list; every call runs synchronously up to its await of getWeb (line 44)
GetXml ==
    \E n \in 1..Min(MaxCalls, Len(XmUrls)) :
      LET started == {XmUrls[i] : i \in 1..n} IN
        /\ pc = "constructed"
        /\ pc' = "getXml"
        /\ limit' = Cardinality(started)
        /\ xm' = [u \in Urls |-> IF u \in started THEN "getWeb" ELSE "idle"]
        /\ getWebCalls' = [u \in Urls |->
                              getWebCalls[u] + (IF u \in started THEN 1 ELSE 0)]
        /\ UNCHANGED <<config, counter, allUrls, processes, processesCompleted,
                       dataFetched, pending, seeded, xml, pages, settled,
                       scriptVars>>

\* the fetch of a getXml call resolves and the rules check returns newUrls
GetXmlData ==
    \E xmUrl \in Urls, newUrls \in LinkLists :
        /\ XmRunning
        /\ xm[xmUrl] = "getWeb"
        /\ getXmlData(xmUrl, newUrls)
        /\ UNCHANGED <<config, processes, processesCompleted, dataFetched, pending,
                       pc, seeded, getWebCalls, pages, settled, limit, scriptVars>>

\* the fetch of a getXml call resolves, line 46 counts it, and checkRules(data)
\* throws at line 47: the catch block runs
GetXmlRulesThrow ==
    \E xmUrl \in Urls :
        /\ XmRunning
        /\ xm[xmUrl] = "getWeb"
        /\ getXmlCatch(xmUrl, counter + 1)
        /\ UNCHANGED <<config, processes, processesCompleted, dataFetched, pending,
                       pc, seeded, getWebCalls, pages, settled, limit, scriptVars>>

\* the fetch of a getXml call fails: the catch block runs
GetXmlFetchFails ==
    \E xmUrl \in Urls :
        /\ XmRunning
        /\ xm[xmUrl] = "getWeb"
        /\ getXmlCatch(xmUrl, counter)
        /\ UNCHANGED <<config, processes, processesCompleted, dataFetched, pending,
                       pc, seeded, getWebCalls, pages, settled, limit, scriptVars>>

\* createXml resolves: lines 52-53 and 61-62 schedule process.exit(0)
CreateXmlResolves ==
    \E xmUrl \in Urls :
        /\ XmRunning
        /\ xm[xmUrl] \in {"createXml", "createXmlCatch"}
        /\ xm' = [xm EXCEPT ![xmUrl] = "returned"]
        /\ pc' = "exiting"
        /\ UNCHANGED <<config, counter, allUrls, processes, processesCompleted,
                       dataFetched, pending, seeded, xml, getWebCalls, pages,
                       settled, limit, scriptVars>>

\* the createXml awaited at line 51 rejects: the catch block runs
CreateXmlRejects ==
    \E xmUrl \in Urls :
        /\ XmRunning
        /\ xm[xmUrl] = "createXml"
        /\ getXmlCatch(xmUrl, counter)
        /\ UNCHANGED <<config, processes, processesCompleted, dataFetched, pending,
                       pc, seeded, getWebCalls, pages, settled, limit, scriptVars>>

\* the createXml awaited at line 60 rejects: the promise of getXml rejects
CreateXmlCatchRejects ==
    \E xmUrl \in Urls :
        /\ XmRunning
        /\ xm[xmUrl] = "createXmlCatch"
        /\ xm' = [xm EXCEPT ![xmUrl] = "rejected"]
        /\ UNCHANGED <<config, counter, allUrls, processes, processesCompleted,
                       dataFetched, pending, pc, seeded, xml, getWebCalls, pages,
                       settled, limit, scriptVars>>

\* the timer of line 53 or 62 fires: process.exit(0)
ProcessExit ==
    /\ pc = "exiting"
    /\ pc' = "exit"
    /\ UNCHANGED <<config, counter, allUrls, processes, processesCompleted,
                   dataFetched, pending, seeded, xml, getWebCalls, pages, settled,
                   xmVars, scriptVars>>

CrawlerNext ==
    \/ Seed \/ AutoFetch \/ GetWebResolves \/ GetWebRejects \/ BatchDone
    \/ GetXml \/ GetXmlData \/ GetXmlRulesThrow \/ GetXmlFetchFails
    \/ CreateXmlResolves \/ CreateXmlRejects \/ CreateXmlCatchRejects
    \/ ProcessExit

\* the crawler driven by autoFetch or by concurrent getXml calls
CrawlerSpec == Init /\ [][CrawlerNext]_vars

\* ------------------------------------------------------ generate-sitemap.js
\* the state of the crawler object, which the script does not use
crawlerVars == <<config, counter, allUrls, processes, processesCompleted,
                 dataFetched, pending, pc, seeded, xml, getWebCalls, pages,
                 settled, xmVars>>

\* a line written by console.log or console.error
Line(kind, n, url) == [kind |-> kind, n |-> n, url |-> url]

\* an event of the generator, or the exception thrown by generator.start()
Event(type, url) == [type |-> type, url |-> url]

\* the script has not called process.exit and its generator may emit events
Listening == script \in {"starting", "started"}

\* mutant: the 'add' listener prints the URL without counting it
OnAdd_NoCount(url) ==
    /\ stdout' = Append(stdout, Line("added", urlCount, url))
    /\ UNCHANGED <<urlCount, exitCode, script>>

\* lines 28-31: generator.on('add', ...)
OnAdd(url) ==
    /\ urlCount' = urlCount + 1
    /\ stdout' = Append(stdout, Line("added", urlCount + 1, url))
    /\ UNCHANGED <<exitCode, script>>

\* lines 33-38: generator.on('done', ...)
OnDone ==
    /\ stdout' = stdout \o <<Line("completed", 0, <<>>),
                             Line("total", urlCount, <<>>),
                             Line("saved", 0, <<>>)>>
    /\ exitCode' = <<0>>
    /\ script' = "exited"
    /\ UNCHANGED urlCount

\* mutant: the 'error' listener reports the error and lets the script run on
OnError_NoExit ==
    /\ stdout' = Append(stdout, Line("error", 0, <<>>))
    /\ UNCHANGED <<urlCount, exitCode, script>>

\* lines 40-43: generator.on('error', ...)
OnError ==
    /\ stdout' = Append(stdout, Line("error", 0, <<>>))
    /\ exitCode' = <<1>>
    /\ script' = "exited"
    /\ UNCHANGED urlCount

\* lines 10-48: the script prints its banner, registers the listeners and calls
\* generator.start()
RunScript ==
    /\ script = "load"
    /\ stdout' = stdout \o <<Line("banner", 0, <<>>), Line("output", 0, <<>>),
                             Line("starting", 0, <<>>)>>
    /\ script' = "starting"
    /\ UNCHANGED <<urlCount, exitCode, events, crawlerVars>>

\* generator.start() returns
StartReturns ==
    /\ script = "starting"
    /\ script' = "started"
    /\ UNCHANGED <<urlCount, stdout, exitCode, events, crawlerVars>>

\* lines 49-52: generator.start() throws
StartThrows ==
    /\ script = "starting"
    /\ events' = Append(events, Event("throw", <<>>))
    /\ stdout' = Append(stdout, Line("failed", 0, <<>>))
    /\ exitCode' = <<1>>
    /\ script' = "exited"
    /\ UNCHANGED <<urlCount, crawlerVars>>

\* the number of events of a type emitted so far
Received(type) == Len(SelectSeq(events, LAMBDA e : e.type = type))

\* the generator emits 'add' for a URL
EmitAdd ==
    \E url \in Urls :
        /\ Listening
        /\ Received("add") + Received("error") < MaxEvents
        /\ events' = Append(events, Event("add", url))
        /\ OnAdd(url)
        /\ UNCHANGED crawlerVars

\* the generator emits 'done'
EmitDone ==
    /\ Listening
    /\ events' = Append(events, Event("done", <<>>))
    /\ OnDone
    /\ UNCHANGED crawlerVars

\* the generator emits 'error'
EmitError ==
    /\ Listening
    /\ Received("add") + Received("error") < MaxEvents
    /\ events' = Append(events, Event("error", <<>>))
    /\ OnError
    /\ UNCHANGED crawlerVars

ScriptNext ==
    RunScript \/ StartReturns \/ StartThrows \/ EmitAdd \/ EmitDone \/ EmitError

\* one run of node generate-sitemap.js
ScriptSpec == Init /\ [][ScriptNext]_vars

\* every dispatched fetch settles and the event loop resumes autoFetch
FairSpec == Spec /\ WF_vars(GetWebRejects \/ GetWebResolves) /\ WF_vars(BatchDone)

\* ------------------------------------------------------- derived notions
\* InFlight: the URLs dispatched to a fetch that has not settled
InFlight == {u \in Urls : pending[u] > 0}

\* the URLs handed to webService.getWeb so far
Fetched == {u \in Urls : getWebCalls[u] >= 1}

\* the URLs whose fetch failed
Failed == {u \in Urls : pages[u].status = "error"}

\* u is among the links returned by a successful fetch
Discovered(u) == \E v \in Urls : pages[v].status = "ok" /\ u \in Range(pages[v].links)

\* depth of u relative to the base URL is within the configured maximum depth
InScope(u) == Len(u) - Len(Base) <= config.crawlLevel

\* autoFetch has written the sitemap with nothing queued and nothing in flight
Finished == pc = "exit" /\ Len(processes) = 0 /\ InFlight = {} /\ Len(xml) >= 1

\* ------------------------------------------------------------------ claims
\* C1: webService.getWeb is invoked at most once for each distinct URL, however
\* often the URL is rediscovered while queued, in flight, completed or failed.
NoDuplicateDispatch == \A u \in Urls : getWebCalls[u] <= 1

\* C1 witness: the crawl finished although /a linked back to the completed base
\* URL and the failed /b was returned again.
NoDuplicateDispatchWitness ==
    /\ pc = "exit"
    /\ pages[Base].status = "ok" /\ pages[Base].links = ExampleLinks
    /\ pages[UrlB].status = "error"
    /\ pages[UrlA].status = "ok" /\ pages[UrlA].links \in {<<Base>>, <<UrlB>>}
    /\ getWebCalls[Base] = 1 /\ getWebCalls[UrlB] = 1

\* C2: once autoFetch has been started, and every dispatched fetch settles, the
\* crawl reaches a state with an empty queue, nothing in flight and the sitemap
\* written.
Termination == (pc # "constructed") ~> Finished

\* C2 witness: a crawl of several batches with a failed fetch has finished.
TerminationWitness ==
    /\ Finished
    /\ seeded
    /\ counter >= 3
    /\ Failed # {}

Known == Range(allUrls) \cup Range(processes) \cup Range(processesCompleted) \cup InFlight

\* Completed: the fetch has settled, or the URL is recorded in
\* processesCompleted and is not in flight
Completed(u) ==
    /\ u \notin InFlight
    /\ pages[u].status # "none" \/ u \in Range(processesCompleted)

\* C4: every URL known to the crawler is in exactly one of Frontier
\* (processes), InFlight and Completed; in particular no URL is in processes
\* and in processesCompleted at the same time.
PartitionInvariant ==
    \A u \in Known :
        /\ u \in Range(processes) \/ u \in InFlight \/ Completed(u)
        /\ ~(u \in Range(processes) /\ u \in InFlight)
        /\ ~(u \in Range(processes) /\ Completed(u))
        /\ ~(u \in InFlight /\ Completed(u))

\* C5: createXml is invoked only in a step that starts with an empty queue and
\* no unsettled fetch, and it is handed the URLs of allUrls.
FinalizeOnlyWhenDone ==
    [][xml' # xml =>
         /\ Len(processes) = 0
         /\ InFlight = {}
         /\ Len(xml') = Len(xml) + 1
         /\ Range(xml'[Len(xml')]) = Range(allUrls)]_vars

\* C5 witness: the sitemap was written after three fetches in several batches.
FinalizeOnlyWhenDoneWitness ==
    /\ Len(xml) = 1
    /\ config.batchSize = 1
    /\ Len(settled) = 3
    /\ Range(xml[1]) = Urls

\* C6: no URL deeper than config.crawlLevel is ever in the queue.
NoDeepUrlQueued ==
    \A i \in 1..Len(processes) : Len(processes[i]) - Len(Base) <= config.crawlLevel

\* C6 witness: the deep URL was returned by two pages and the crawl went on
\* without it.
NoDeepUrlQueuedWitness ==
    /\ pages[Base].status = "ok" /\ pages[Base].links = ExampleLinks
    /\ pages[UrlA].status = "ok" /\ pages[UrlA].links = <<UrlDeep>>
    /\ UrlB \in Range(processes)
    /\ UrlDeep \in Range(allUrls)

\* C7: from the seeded state on, allUrls contains every URL that is queued, in
\* flight or completed, the seed included.
DiscoveredSuperset ==
    seeded =>
        /\ Base \in Range(allUrls)
        /\ (Range(processes) \cup InFlight \cup Range(processesCompleted)
              \cup Range(settled)) \subseteq Range(allUrls)

\* C7 witness: a seeded crawl with a queued URL, a URL in flight and completed
\* and ignored URLs.
DiscoveredSupersetWitness ==
    /\ seeded
    /\ Len(processes) > 0
    /\ InFlight # {}
    /\ Len(settled) > 0
    /\ UrlDeep \in Range(processesCompleted)

\* the example crawl: maxDepth 1, "/" links to /a, /b and /deep/path/too/far,
\* /a and /b link to nothing
ExampleCrawl ==
    /\ seeded
    /\ config.crawlLevel = 1
    /\ pages[Base] = [status |-> "ok", links |-> ExampleLinks]
    /\ pages[UrlA] = [status |-> "ok", links |-> <<>>]
    /\ pages[UrlB] = [status |-> "ok", links |-> <<>>]

\* C8 as stated: the set handed to the sitemap writer contains the seed and no
\* URL deeper than maxDepth; for the example crawl it is {/, /a, /b}.
FinalSetWithinDepth ==
    (pc = "exit" /\ seeded) =>
        /\ Base \in Range(xml[1])
        /\ \A u \in Range(xml[1]) : InScope(u)
        /\ ExampleCrawl => Range(xml[1]) = {Base, UrlA, UrlB}

\* C8 amended: the set handed to the sitemap writer is the seed together with
\* every URL returned by a successful fetch, the ones deeper than maxDepth
\* included (these are never fetched); for the example crawl it is
\* {/, /a, /b, /deep/path/too/far}.
FinalSetKeepsIgnored ==
    (pc = "exit" /\ seeded) =>
        /\ Range(xml[1]) = {Base} \cup {u \in Urls : Discovered(u)}
        /\ \A u \in Range(xml[1]) : ~InScope(u) => u \notin Fetched
        /\ ExampleCrawl => Range(xml[1]) = {Base, UrlA, UrlB, UrlDeep}

\* C8 witness: the example crawl has finished.
FinalSetKeepsIgnoredWitness == pc = "exit" /\ ExampleCrawl

\* C9: a failed fetch is counted like a successful one and is never retried,
\* the links of every successful fetch are merged into allUrls and queued or
\* fetched, and once a fetch has failed the crawl still finishes with the
\* sitemap written.
FailureIsolation ==
    /\ [](/\ dataFetched = Len(settled)
          /\ \A u \in Failed :
                /\ getWebCalls[u] = 1
                /\ u \notin Range(processes)
                /\ u \in Range(processesCompleted)
          /\ \A v \in Urls : pages[v].status = "ok" =>
                \A u \in Range(pages[v].links) :
                    /\ u \in Range(allUrls)
                    /\ InScope(u) => (u \in Range(processes) \/ u \in Fetched))
    /\ (Failed # {}) ~> (Finished /\ Failed # {})

\* C9 witness: /a failed, /b of the same batch succeeded afterwards, and the
\* sitemap with the links of /b was written.
FailureIsolationWitness ==
    /\ Finished
    /\ config.batchSize # 1
    /\ settled = <<Base, UrlA, UrlB>>
    /\ Failed = {UrlA}
    /\ pages[UrlB].status = "ok" /\ pages[UrlB].links = <<UrlDeep>>
    /\ UrlDeep \in Range(xml[1])

\* the URLs a crawl of the recorded pages has to fetch: the seed and, for every
\* page fetched successfully, its links within the crawl level
Reach(R) ==
    R \cup {u \in Urls : InScope(u) /\ \E v \in R :
                pages[v].status = "ok" /\ u \in Range(pages[v].links)}

RECURSIVE Closure(_)
Closure(R) == IF Reach(R) = R THEN R ELSE Closure(Reach(R))

ExpectedFetched == Closure({Base})

ExpectedDiscovered ==
    {Base} \cup UNION {Range(pages[v].links) :
                          v \in {w \in ExpectedFetched : pages[w].status = "ok"}}

\* C10: the URLs fetched and the contents of the final allUrls are determined
\* by the seed, the links of the pages and the fetch outcomes alone, whatever
\* the batch size and the order in which the fetches of a batch settle.
ScheduleIndependence ==
    (pc = "exit" /\ seeded) =>
        /\ Fetched = ExpectedFetched
        /\ Range(xml[1]) = ExpectedDiscovered

\* C10 witness: /a and /b were fetched in one batch and /b settled first.
ScheduleIndependenceWitness ==
    /\ pc = "exit"
    /\ seeded
    /\ config.batchSize = 2
    /\ settled = <<Base, UrlB, UrlA>>
    /\ pages[UrlB].status = "ok"

\* the step is the handler of a successful fetch: it calls queueUrls(newUrls)
QueueUrlsCalled ==
    /\ Len(settled') = Len(settled) + 1
    /\ pages'[settled'[Len(settled')]].status = "ok"

\* the candidate list of that call
QueuedUrls == pages[settled[Len(settled)]].links

\* C11: a second queueUrls call with the candidates of the call just made
\* leaves processes as the first call left it (queueUrls never assigns
\* allUrls, so allUrls is as the first call left it too).
IdempotentFrontier ==
    [][QueueUrlsCalled => processesAfter(QueuedUrls)' = processes']_vars

\* C11 witness: queueUrls has just queued /a and /b and ignored the deep URL.
IdempotentFrontierWitness ==
    /\ settled = <<Base>>
    /\ pages[Base].status = "ok" /\ pages[Base].links = ExampleLinks
    /\ processes = <<UrlA, UrlB>>

\* C12: a second queueUrls call with the candidates of the call just made
\* leaves the URLs recorded in processesCompleted as the first call left them.
IdempotentCompleted ==
    [][QueueUrlsCalled =>
         Range(processesCompletedAfter(QueuedUrls)') = Range(processesCompleted')]_vars

\* the sum of f over the URLs
RECURSIVE SumOver(_, _)
SumOver(f, S) ==
    IF S = {} THEN 0
    ELSE LET u == CHOOSE x \in S : TRUE IN f[u] + SumOver(f, S \ {u})

Total(f) == SumOver(f, Urls)

\* C13: counter counts the dispatched URLs and dataFetched the settled ones,
\* failures included, so dataFetched never exceeds counter, the two are equal
\* whenever nothing is in flight, and autoFetch never returns with an empty
\* queue without writing the sitemap.
CompletionChecksAgree ==
    /\ dataFetched <= counter
    /\ counter = Total(getWebCalls)
    /\ dataFetched = Len(settled)
    /\ counter - dataFetched = Total(pending)
    /\ InFlight = {} => counter = dataFetched
    /\ pc # "returned"

\* C13 witness: a batch of two URLs, one failed and one fetched, has settled.
CompletionChecksAgreeWitness ==
    /\ pc = "awaitBatch"
    /\ InFlight = {}
    /\ counter = 3
    /\ Len(urlsToProcess) = 0
    /\ Failed = {UrlB}
    /\ pages[UrlA].status = "ok"
    /\ config.batchSize # 1

\* C17: createXml is invoked at most once, and exactly once when autoFetch
\* has come to its end.
SitemapWrittenOnce ==
    /\ Len(xml) <= 1
    /\ pc = "exit" <=> Len(xml) = 1

\* C17 witness: a crawl of three batches has written the sitemap.
SitemapWrittenOnceWitness ==
    /\ pc = "exit"
    /\ seeded
    /\ config.batchSize = 1
    /\ counter = 3
    /\ Failed = {}
    /\ Len(xml) = 1

\* the step is the handler of a failed fetch
FetchFailed ==
    /\ Len(settled') = Len(settled) + 1
    /\ pages'[settled'[Len(settled')]].status = "error"

\* C18: handling a failed fetch adds 1 to dataFetched and leaves processes,
\* allUrls, counter and processesCompleted as they were.
FailureFrame ==
    [][FetchFailed =>
         /\ dataFetched' = dataFetched + 1
         /\ UNCHANGED <<processes, allUrls, counter, processesCompleted>>]_vars

\* C18 witness: the fetch of /a has failed while /b was queued.
FailureFrameWitness ==
    /\ settled = <<Base, UrlA>>
    /\ Failed = {UrlA}
    /\ processes = <<UrlB>>
    /\ dataFetched = 2

\* a configuration the crawl is to reject
InvalidConfig == config.batchSize <= 0 \/ config.crawlLevel < 0

\* C14: under an invalid configuration autoFetch does not start the crawl: it
\* dispatches no fetch and does not enter its batch loop.
ConfigErrorsFailFast ==
    (InvalidConfig /\ seeded) =>
        /\ Total(getWebCalls) = 0
        /\ pc = "constructed"

\* C16: at most batchSize fetches are in flight at any time, and a step that
\* dispatches fetches is taken only when no fetch of the batch before is still
\* in flight, also when an early-resolving fetch of that batch has queued URLs.
SynchronousBatches ==
    [][/\ Total(pending') <= BatchSize
       /\ (getWebCalls' # getWebCalls => InFlight = {})]_vars

\* "/" and /a were dispatched in one batch; the fetch of "/" resolved first and
\* queued /b, which is not dispatched while /a is in flight
SynchronousBatchesWitness ==
    /\ pc = "awaitBatch"
    /\ BatchSize >= 2
    /\ counter = 2
    /\ settled = <<Base>>
    /\ pages[Base].links = <<UrlB>>
    /\ pending[UrlA] = 1
    /\ UrlB \in Range(processes)
    /\ getWebCalls[UrlB] = 0

\* C15: no step of autoFetch, queueUrls or getXml removes a URL from allUrls.
MonotonicDiscovery == [][Range(allUrls) \subseteq Range(allUrls')]_vars

\* two getXml calls have merged their links into the allUrls the seed began
MonotonicDiscoveryWitness ==
    /\ limit = 2
    /\ counter = 2
    /\ xml # <<>>
    /\ allUrls = <<Base, UrlA, UrlB>>

\* the getXml calls whose fetch has settled
XmFetched == {u \in Urls : xm[u] \notin {"idle", "getWeb"}}

\* C19: with limit getXml calls started from counter = 0, counter is the number
\* of calls whose fetch has settled, createXml is not invoked while a fetch is
\* outstanding, and it is not invoked twice.
GetXmlCountsOnce ==
    limit > 0 =>
        /\ counter = Cardinality(XmFetched)
        /\ (xml # <<>> => \A u \in Urls : xm[u] # "getWeb")
        /\ Len(xml) <= 1

\* the script has printed a line of the kind
Printed(kind) == \E i \in 1..Len(stdout) : stdout[i].kind = kind

\* C20: the total printed on 'done' is the number of 'add' events received; the
\* script exits with 0 only on a 'done' event; it exits with 1 on the first
\* 'error' event or when start() throws, and then prints no success message.
ScriptOutcome ==
    /\ \A i \in 1..Len(stdout) :
           stdout[i].kind = "total" => stdout[i].n = Received("add")
    /\ exitCode = <<0>> <=> Received("done") = 1
    /\ exitCode = <<1>> <=> Received("error") + Received("throw") = 1
    /\ Received("error") + Received("throw") + Received("done") <= 1
    /\ exitCode # <<>> =>
           /\ script = "exited"
           /\ events[Len(events)].type \in {"done", "error", "throw"}
    /\ exitCode = <<1>> => ~Printed("completed")
    /\ Printed("completed") <=> exitCode = <<0>>

\* two URLs were added, then the generator was done
ScriptOutcomeWitness ==
    /\ exitCode = <<0>>
    /\ Received("add") = 2
    /\ stdout[Len(stdout) - 1] = Line("total", 2, <<>>)

====
